---------------------------- MODULE Spec2Model ----------------------------
(***************************************************************************)
(* A model of boost::json::object (include/boost/json/impl/object.ipp):    *)
(* an insertion-ordered open-hashing map whose entries hold their key      *)
(* inline behind a varint length prefix, together with detail::varint_*.   *)
(*                                                                         *)
(* Memory is modelled as a heap of element cells addressed 1..MaxAddr.     *)
(* Pointers are integers: NULL is nullptr, END is the address of the       *)
(* current table's end_element, any other value is an element address.     *)
(* A freed cell stays addressable: a pointer to it dangles, the allocator  *)
(* may hand the address out again, and a store through a dangling pointer  *)
(* lands either in free memory or in whatever entry lives there now.       *)
(***************************************************************************)
EXTENDS Integers, Sequences, FiniteSets, TLC

\* --------------------------------------------------------------- bounds
\* Number of element cells the allocator can hand out.
MaxAddr == 3
\* Largest value the varint codec is exercised on.
MaxVarint == 16500
\* Byte length of the long key (its varint prefix needs two groups).
LongLen == 130
\* Longest batch a bulk insert is given.
MaxBatch == 2
\* Number of element cells of the heap two swapped objects share.
MaxSwapAddr == 4
\* Largest capacity a raw_stack's buffer is grown to.
MaxRawCapacity == 12

\* ------------------------------------------------------- detail::varint
\* A varint_size that lets a lone group hold 128: the loop tests
\* value > 128 (what an off-by-one in the test would do).
RECURSIVE varint_size_off_by_one(_)
varint_size_off_by_one(value) ==
    IF value > 128 THEN 1 + varint_size_off_by_one(value \div 128) ELSE 1

\* varint_size: count the base-128 groups of value.
RECURSIVE varint_size(_)
varint_size(value) ==
    IF value > 127 THEN 1 + varint_size(value \div 128) ELSE 1

\* varint_write: the bytes stored at dest. A non-final group is emitted as
\* value & 0x7f, then value >>= 7; the final group is value itself.
RECURSIVE varint_write(_)
varint_write(value) ==
    IF value > 127
    THEN <<value % 128>> \o varint_write(value \div 128)
    ELSE <<value>>

\* varint_read: consume bytes while *cp > 127, accumulating
\* (*cp & 0x7f) * factor; then add the final byte times factor.
\* Returns [first |-> value, second |-> bytes consumed].
RECURSIVE varint_read_loop(_, _, _, _)
varint_read_loop(src, i, value, factor) ==
    IF src[i] > 127
    THEN varint_read_loop(src, i + 1, value + (src[i] % 128) * factor,
                          factor * 128)
    ELSE [first |-> value + src[i] * factor, second |-> i]

varint_read(src) == varint_read_loop(src, 1, 0, 1)

\* ------------------------------------------------------- object::hasher
\* std::size_t is modelled as 8 little-endian limbs of 8 bits (the build
\* where sizeof(std::size_t) >= sizeof(unsigned long long)), so that the
\* multiplication wraps at 2^64 as the code's does.
Limbs == 8

\* init(std::true_type): the prime 0x100000001B3 and the offset basis
\* 0xcbf29ce484222325.
hasher_init ==
    [prime |-> <<179, 1, 0, 0, 0, 1, 0, 0>>,
     hash  |-> <<37, 35, 34, 132, 228, 156, 242, 203>>]

RECURSIVE BitXor(_, _)
BitXor(a, b) ==
    IF a = 0 THEN b
    ELSE IF b = 0 THEN a
    ELSE ((a + b) % 2) + 2 * BitXor(a \div 2, b \div 2)

\* Sum of h[j] * p[i - j + 1] for j in 1..i: column i of the product.
RECURSIVE MulColumn(_, _, _, _)
MulColumn(h, p, i, j) ==
    IF j > i THEN 0 ELSE h[j] * p[i - j + 1] + MulColumn(h, p, i, j + 1)

\* h * p modulo 2^64, limb by limb from limb i on. (A value is bound by
\* CHOOSE over a one-element set where it is used more than once, so that it
\* is computed once.)
RECURSIVE MulLimbs(_, _, _, _)
MulLimbs(h, p, i, carry) ==
    IF i > Limbs THEN <<>>
    ELSE CHOOSE r \in {<<t % 256>> \o MulLimbs(h, p, i + 1, t \div 256) :
                          t \in {MulColumn(h, p, i, 1) + carry}} : TRUE

\* operator()(key): for each byte, hash = (*p ^ hash) * prime. The loop
\* over bytes i..j is run as its first half followed by its second half,
\* which is the same sequence of steps at a recursion depth TLC can hold.
hasher_step(hash, byte) ==
    CHOOSE r \in {MulLimbs(x, hasher_init.prime, 1, 0) :
                     x \in {[h EXCEPT ![1] = BitXor(byte, h[1])] :
                               h \in {hash}}} : TRUE

RECURSIVE hasher_loop(_, _, _, _)
hasher_loop(key, i, j, hash) ==
    IF i > j THEN hash
    ELSE IF i = j THEN hasher_step(hash, key[i])
    ELSE CHOOSE r \in {hasher_loop(key, ((i + j) \div 2) + 1, j, h) :
                          h \in {hasher_loop(key, i, (i + j) \div 2, hash)}} :
             TRUE

hasher(key) == hasher_loop(key, 1, Len(key), hasher_init.hash)

\* constrain_hash: hash % bucket_count, on the limbs from the top one down.
RECURSIVE ModLimbs(_, _, _, _)
ModLimbs(hash, i, r, bucket_count) ==
    IF i = 0 THEN r
    ELSE ModLimbs(hash, i - 1, (r * 256 + hash[i]) % bucket_count,
                  bucket_count)

constrain_hash(hash, bucket_count) ==
    ModLimbs(hash, Limbs, 0, bucket_count)

\* ------------------------------------------------------ detail::primes
\* The head of get_primes()'s list; requests are kept at or below its last
\* member, so lower_bound never reaches the part left out.
primes == <<0, 3, 7, 11, 17, 29, 53>>

\* *std::lower_bound(primes.begin(), primes.end(), n)
RECURSIVE lower_bound_from(_, _)
lower_bound_from(i, n) ==
    IF primes[i] >= n THEN primes[i] ELSE lower_bound_from(i + 1, n)

lower_bound(n) == lower_bound_from(1, n)


\* ---------------------------------------------------------------- keys
\* Keys are byte strings. The short keys are "a", "b", "c"; the long key
\* is LongLen bytes of 'a', so its length needs two varint groups.
ShortKeys == {<<97>>, <<98>>, <<99>>}
LongKey == [i \in 1..LongLen |-> 97]
\* Payloads (the value stored with a key).
Vals == {1, 2}

\* ------------------------------------------------------- pointers, heap
NULL == 0
END == -1
Addr == 1..MaxAddr

\* A free cell. Its content is what a later read through a dangling pointer
\* would see; no definition below reads it without first testing `live`.
FreeCell ==
    [live |-> FALSE, k |-> <<>>, val |-> 0,
     next |-> NULL, prev |-> NULL, local_next |-> NULL]

\* allocate_impl: the bytes written behind the element header are
\* varint_write(key.size()), the key bytes, and a terminating NUL.
allocate_bytes(key) == varint_write(Len(key)) \o key \o <<0>>

\* The cell allocate_impl returns (its links are set by whoever links it).
allocate_impl(key, val) ==
    [live |-> TRUE, k |-> key, val |-> val,
     next |-> NULL, prev |-> NULL, local_next |-> NULL]

\* element::key(): decode the length with varint_read, and return that many
\* bytes starting behind the bytes varint_read consumed.
element_key(bytes) ==
    LET result == varint_read(bytes)
    IN  SubSeq(bytes, result.second + 1, result.second + result.first)

\* The keys entries are created with: those the callers pass, and what
\* key() makes of the long key (the key a copy of its entry is given).
LongKeyView == element_key(allocate_bytes(LongKey))
AllKeys == ShortKeys \cup {LongKey, LongKeyView}

\* key() of each stored key, and the hash of every key that is ever hashed
\* (computed once: both are functions of the key bytes alone).
KeyView == [k \in AllKeys |-> element_key(allocate_bytes(k))]
HashedKeys == AllKeys \cup {KeyView[k] : k \in AllKeys}
HashMemo == [k \in HashedKeys |-> hasher(k)]

key(cell) == KeyView[cell.k]
hash_function(k) == HashMemo[k]

\* The byte count allocate_impl asks the allocator for, and the one
\* element::destroy hands back to it (from the length key() reports), both
\* less sizeof(element); both calls pass alignof(element).
allocate_size(k) == varint_size(Len(k)) + Len(k) + 1
destroy_size(cell) == varint_size(Len(key(cell))) + Len(key(cell)) + 1

\* ---------------------------------------------------------------- table
\* tab_ == nullptr
NoTable ==
    [null |-> TRUE, size |-> 0, bucket_count |-> 0,
     head |-> NULL, end_prev |-> NULL, bucket |-> <<>>]

\* table::construct: size 0, head == end(), end()->prev == nullptr, every
\* bucket holds end(). bucket(n) is bucket[n + 1].
table_construct(bucket_count) ==
    [null |-> FALSE, size |-> 0, bucket_count |-> bucket_count,
     head |-> END, end_prev |-> NULL,
     bucket |-> [i \in 1..bucket_count |-> END]]

size(tab) == IF tab.null THEN 0 ELSE tab.size
bucket_count(tab) == IF tab.null THEN 0 ELSE tab.bucket_count
begin(tab) == IF tab.null THEN NULL ELSE tab.head
end(tab) == IF tab.null THEN NULL ELSE END
empty(tab) == tab.null \/ tab.size = 0

\* object::bucket(key)
bucket(tab, k) == constrain_hash(hash_function(k), bucket_count(tab))

\* A member function returns the table and heap it leaves, `threw` when it
\* ended by an allocation failure, and in `bad` how the run left defined
\* behaviour, if it did:
\*   "segv"   a null pointer was dereferenced,
\*   "uaf"    a freed cell was read,
\*   "assert" a BOOST_ASSERT failed (a chain walk reached end()),
\*   "hang"   a walk never reaches end().
IsElem(mem, p) == p \in DOMAIN mem /\ mem[p].live

\* p->next = v. A store into a freed cell changes nothing a later read sees.
SetNext(mem, p, v) ==
    IF IsElem(mem, p) THEN [mem EXCEPT ![p].next = v] ELSE mem

SetLocalNext(mem, p, v) ==
    IF IsElem(mem, p) THEN [mem EXCEPT ![p].local_next = v] ELSE mem

\* p->prev = v, where p may be end().
SetPrevMem(mem, p, v) ==
    IF IsElem(mem, p) THEN [mem EXCEPT ![p].prev = v] ELSE mem

SetPrevTab(tab, p, v) ==
    IF p = END THEN [tab EXCEPT !.end_prev = v] ELSE tab

\* p->prev, where p may be end().
GetPrev(tab, mem, p) == IF p = END THEN tab.end_prev ELSE mem[p].prev

\* The entries met walking the order list from head to end(), and whether
\* the walk got there.
RECURSIVE walk(_, _, _, _)
walk(mem, e, acc, fuel) ==
    IF e = END THEN [seq |-> acc, ok |-> TRUE]
    ELSE IF ~IsElem(mem, e) \/ fuel = 0 THEN [seq |-> acc, ok |-> FALSE]
    ELSE walk(mem, mem[e].next, Append(acc, e), fuel - 1)

iterate(tab, mem) ==
    IF tab.null THEN [seq |-> <<>>, ok |-> TRUE]
    ELSE walk(mem, tab.head, <<>>, MaxAddr)

\* find_impl: hash the key; with no buckets report not-found; else walk the
\* key's bucket chain comparing key with e->key().
RECURSIVE find_chain(_, _, _, _)
find_chain(mem, k, e, fuel) ==
    IF e = END THEN [first |-> NULL, bad |-> ""]
    ELSE IF e = NULL THEN [first |-> NULL, bad |-> "segv"]
    ELSE IF ~mem[e].live THEN [first |-> NULL, bad |-> "uaf"]
    ELSE IF fuel = 0 THEN [first |-> NULL, bad |-> "hang"]
    ELSE IF k = key(mem[e]) THEN [first |-> e, bad |-> ""]
    ELSE find_chain(mem, k, mem[e].local_next, fuel - 1)

find_impl(tab, mem, k) ==
    LET walked(hash, r) == [first |-> r.first, second |-> hash, bad |-> r.bad]
        hashed(hash, bc) ==
            IF bc = 0
            THEN [first |-> NULL, second |-> hash, bad |-> ""]
            ELSE walked(hash,
                        find_chain(mem, k,
                            tab.bucket[constrain_hash(hash, bc) + 1], MaxAddr))
    IN  hashed(hash_function(k), bucket_count(tab))

\* find / count / contains
find(tab, mem, k) ==
    LET it(e) == IF e # NULL THEN e ELSE end(tab)
    IN  it(find_impl(tab, mem, k).first)
count(tab, mem, k) == IF find(tab, mem, k) = end(tab) THEN 0 ELSE 1
contains(tab, mem, k) == find(tab, mem, k) # end(tab)

\* at(key): find the key; throw std::out_of_range when it is not found, else
\* return the payload of the entry found.
at(tab, mem, k) ==
    LET found(it) ==
            IF it = end(tab) THEN [threw |-> TRUE, second |-> 0]
            ELSE [threw |-> FALSE, second |-> mem[it].val]
    IN  found(find(tab, mem, k))


\* ---------------------------------------------------------- load factor
\* max_load_factor() is a positive float, modelled as the fraction
\* num / den; the values used are exact in float.
LoadFactors ==
    {[num |-> 1, den |-> 2], [num |-> 1, den |-> 1], [num |-> 2, den |-> 1]}
DefaultLoadFactor == [num |-> 1, den |-> 1]

\* The quotient rounded down (what the cast alone, with no std::ceil, gives).
floor_div(n, mf) == (n * mf.den) \div mf.num

\* static_cast<size_type>(std::ceil(n / max_load_factor()))
ceil_div(n, mf) == (n * mf.den + mf.num - 1) \div mf.num

\* The test made on the size before the insert instead of the size after.
exceeds_before(n, bc, mf) == (n - 1) * mf.den > bc * mf.num

\* n > bucket_count * max_load_factor()
exceeds(n, bc, mf) == n * mf.den > bc * mf.num

\* load_factor() > mf: load_factor() is 0 with no table, else size / buckets.
load_factor_above(tab, mf) ==
    ~tab.null /\ exceeds(tab.size, tab.bucket_count, mf)

Max(a, b) == IF a >= b THEN a ELSE b

\* -------------------------------------------------------- object::rehash
\* The bucket count rehash(n) goes on to build, or NULL when it returns
\* early: snap n to the primes; return if that is the current count; when
\* it is smaller, take the larger of it and the snapped
\* ceil(size / max_load_factor), and return if that is <= the current count.
rehash_target(tab, mf, n) ==
    LET grown(n2, bc) == IF n2 <= bc THEN NULL ELSE n2
        snapped(n1, bc) ==
            IF n1 = bc THEN NULL
            ELSE IF n1 < bc
            THEN grown(Max(n1, lower_bound(ceil_div(size(tab), mf))), bc)
            ELSE n1
    IN  snapped(lower_bound(n), bucket_count(tab))

\* "create new buckets": construct the new table and move the order list
\* over: size, head, end()->prev, and the last entry's next.
rehash_transplant(tab, mem, n) ==
    LET new == table_construct(n)
    IN  IF tab.null THEN [tab |-> new, mem |-> mem, bad |-> ""]
        ELSE IF tab.head # END
        THEN [tab |-> [new EXCEPT !.size = tab.size, !.head = tab.head,
                                  !.end_prev = tab.end_prev],
              mem |-> SetNext(mem, tab.end_prev, END),
              bad |-> IF tab.end_prev = NULL THEN "segv" ELSE ""]
        ELSE [tab |-> [new EXCEPT !.size = tab.size, !.head = END],
              mem |-> mem, bad |-> ""]

\* "rehash into new buckets": walk the order list from head to end(),
\* pushing each entry on the front of the chain of bucket(e->key()).
RECURSIVE rehash_buckets(_, _, _, _)
rehash_buckets(tab, mem, e, fuel) ==
    IF e = END THEN [tab |-> tab, mem |-> mem, bad |-> ""]
    ELSE IF e = NULL THEN [tab |-> tab, mem |-> mem, bad |-> "segv"]
    ELSE IF ~mem[e].live THEN [tab |-> tab, mem |-> mem, bad |-> "uaf"]
    ELSE IF fuel = 0 THEN [tab |-> tab, mem |-> mem, bad |-> "hang"]
    ELSE LET push(bn) ==
                 rehash_buckets(
                     [tab EXCEPT !.bucket[bn + 1] = e],
                     [mem EXCEPT ![e].local_next = tab.bucket[bn + 1]],
                     mem[e].next, fuel - 1)
         IN  push(bucket(tab, key(mem[e])))

\* rehash(n); alloc_ok says whether table::construct gets its memory.
rehash(tab, mem, mf, n, alloc_ok) ==
    LET filled(b) ==
            [tab |-> b.tab, mem |-> b.mem, threw |-> FALSE, bad |-> b.bad]
        moved(t) ==
            IF t.bad # ""
            THEN [tab |-> t.tab, mem |-> t.mem, threw |-> FALSE, bad |-> t.bad]
            ELSE filled(rehash_buckets(t.tab, t.mem, t.tab.head, MaxAddr))
        build(target) ==
            IF target = NULL
            THEN [tab |-> tab, mem |-> mem, threw |-> FALSE, bad |-> ""]
            ELSE IF ~alloc_ok
            THEN [tab |-> tab, mem |-> mem, threw |-> TRUE, bad |-> ""]
            ELSE moved(rehash_transplant(tab, mem, target))
    IN  build(rehash_target(tab, mf, n))

\* max_load_factor(mf): mf_ = mf; then rehash(0) if load_factor() > mf_.
max_load_factor(tab, mem, mf, alloc_ok) ==
    LET rehashed(r) ==
            [mf |-> mf, tab |-> r.tab, mem |-> r.mem, threw |-> r.threw,
             bad |-> r.bad]
    IN  IF load_factor_above(tab, mf)
        THEN rehashed(rehash(tab, mem, mf, 0, alloc_ok))
        ELSE [mf |-> mf, tab |-> tab, mem |-> mem, threw |-> FALSE,
              bad |-> ""]

\* A destroy that frees nothing.
destroy_leak(mem, e) == mem

\* ------------------------------------------------------ element::destroy
destroy(mem, e) == [mem EXCEPT ![e] = FreeCell]

\* ------------------------------- object::insert(before, hash, element*)
\* "perform insert": push e on its bucket chain, then link it into the
\* order list: as the only entry when the list is empty, else before
\* `before`.
insert_link(tab, mem, before, hash, e) ==
    LET bn == constrain_hash(hash, tab.bucket_count)
        t1 == [tab EXCEPT !.bucket[bn + 1] = e]
        m1 == [mem EXCEPT ![e].local_next = tab.bucket[bn + 1]]
    IN  IF tab.head = END
        THEN [tab |-> [t1 EXCEPT !.head = e, !.end_prev = e,
                                 !.size = tab.size + 1],
              mem |-> [m1 EXCEPT ![e].next = END, ![e].prev = NULL],
              bad |-> ""]
        ELSE IF before = NULL
        THEN [tab |-> tab, mem |-> mem, bad |-> "segv"]
        ELSE IF before # END /\ ~mem[before].live
        THEN [tab |-> tab, mem |-> mem, bad |-> "uaf"]
        ELSE LET prev == GetPrev(tab, mem, before)
                 m2 == [m1 EXCEPT ![e].prev = prev]
                 m3 == IF prev # NULL THEN SetNext(m2, prev, e) ELSE m2
                 t2 == IF prev # NULL THEN t1 ELSE [t1 EXCEPT !.head = e]
                 m4 == [m3 EXCEPT ![e].next = before]
                 m5 == SetPrevMem(m4, before, e)
                 t3 == SetPrevTab(t2, before, e)
             IN  [tab |-> [t3 EXCEPT !.size = tab.size + 1],
                  mem |-> m5, bad |-> ""]

\* The whole primitive: rehash if size + 1 > bucket_count * max_load_factor,
\* refreshing `before` when it was end(); then link. The revert guard
\* destroys e when the rehash throws.
insert(tab, mem, mf, before, hash, e, alloc_ok) ==
    LET linked(l) ==
            [tab |-> l.tab, mem |-> l.mem, threw |-> FALSE, bad |-> l.bad]
        rehashed(r) ==
            IF r.threw
            THEN [tab |-> tab, mem |-> destroy(mem, e), threw |-> TRUE,
                  bad |-> ""]
            ELSE IF r.bad # ""
            THEN [tab |-> r.tab, mem |-> r.mem, threw |-> FALSE,
                  bad |-> r.bad]
            ELSE linked(insert_link(r.tab, r.mem,
                            IF before = end(tab) THEN end(r.tab) ELSE before,
                            hash, e))
    IN  IF exceeds(size(tab) + 1, bucket_count(tab), mf)
        THEN rehashed(rehash(tab, mem, mf, ceil_div(size(tab) + 1, mf),
                             alloc_ok))
        ELSE linked(insert_link(tab, mem, before, hash, e))

\* -------------------------------------------------------- object::remove
\* Unlink e from the order list: move head when e is the head, else splice
\* its neighbours.
remove_order(tab, mem, e) ==
    IF e = tab.head
    THEN [tab |-> [tab EXCEPT !.head = mem[e].next], mem |-> mem, bad |-> ""]
    ELSE LET m1 == SetNext(mem, mem[e].prev, mem[e].next)
         IN  [tab |-> SetPrevTab(tab, mem[e].next, mem[e].prev),
              mem |-> SetPrevMem(m1, mem[e].next, mem[e].prev),
              bad |-> IF mem[e].prev = NULL \/ mem[e].next = NULL
                      THEN "segv" ELSE ""]

\* The entry of the chain whose local_next is e, walking from `it`.
RECURSIVE remove_walk(_, _, _, _)
remove_walk(mem, it, e, fuel) ==
    IF it = END THEN [it |-> it, bad |-> "assert"]
    ELSE IF it = NULL THEN [it |-> it, bad |-> "segv"]
    ELSE IF ~mem[it].live THEN [it |-> it, bad |-> "uaf"]
    ELSE IF fuel = 0 THEN [it |-> it, bad |-> "hang"]
    ELSE IF mem[it].local_next = e THEN [it |-> it, bad |-> ""]
    ELSE remove_walk(mem, mem[it].local_next, e, fuel - 1)

\* Unlink e from the chain of bucket(e->key()), and decrement size.
remove_bucket(tab, mem, e) ==
    LET walked(w) ==
            IF w.bad # ""
            THEN [tab |-> tab, mem |-> mem, bad |-> w.bad]
            ELSE [tab |-> [tab EXCEPT !.size = tab.size - 1],
                  mem |-> [mem EXCEPT ![w.it].local_next = mem[e].local_next],
                  bad |-> ""]
        unlink(bn) ==
            IF tab.bucket[bn + 1] # e
            THEN walked(remove_walk(mem, tab.bucket[bn + 1], e, MaxAddr))
            ELSE [tab |-> [tab EXCEPT !.bucket[bn + 1] = mem[e].local_next,
                                      !.size = tab.size - 1],
                  mem |-> mem, bad |-> ""]
    IN  unlink(bucket(tab, key(mem[e])))

remove(tab, mem, e) ==
    LET unlinked(o) ==
            IF o.bad # "" THEN o ELSE remove_bucket(o.tab, o.mem, e)
    IN  unlinked(remove_order(tab, mem, e))


\* ---------------------------------------------------- object::undo_range
\* The staging list of a bulk insert: head_, tail_ and n_.
undo_range_new == [head_ |-> NULL, tail_ |-> NULL, n_ |-> 0]

\* undo_range::insert: append e to the staging list.
undo_range_insert(u, mem, e) ==
    IF u.head_ = NULL
    THEN [u |-> [head_ |-> e, tail_ |-> e, n_ |-> u.n_ + 1],
          mem |-> [mem EXCEPT ![e].prev = NULL, ![e].next = NULL]]
    ELSE [u |-> [head_ |-> u.head_, tail_ |-> e, n_ |-> u.n_ + 1],
          mem |-> [mem EXCEPT ![e].prev = u.tail_, ![u.tail_].next = e,
                              ![e].next = NULL]]

\* ~undo_range: destroy every entry from head_ on.
RECURSIVE undo_range_dtor_loop(_, _, _)
undo_range_dtor_loop(mem, it, fuel) ==
    IF it = NULL THEN [mem |-> mem, bad |-> ""]
    ELSE IF it = END THEN [mem |-> mem, bad |-> "segv"]
    ELSE IF ~mem[it].live THEN [mem |-> mem, bad |-> "uaf"]
    ELSE IF fuel = 0 THEN [mem |-> mem, bad |-> "hang"]
    ELSE undo_range_dtor_loop(destroy(mem, it), mem[it].next, fuel - 1)

\* An ~undo_range that destroys nothing.
undo_range_dtor_leak(u, mem) == [mem |-> mem, bad |-> ""]

undo_range_dtor(u, mem) == undo_range_dtor_loop(mem, u.head_, MaxAddr)

\* commit's loop over the staged entries: an entry whose key find_impl finds
\* is destroyed; any other is linked before `before` and pushed on the
\* chain of its hash, and size is incremented.
commit_link(tab, mem, before, hash, e) ==
    LET prev == GetPrev(tab, mem, before)
        m1 == [mem EXCEPT ![e].next = before, ![e].prev = prev]
        m2 == SetPrevMem(m1, before, e)
        t1 == SetPrevTab(tab, before, e)
        m3 == IF prev # NULL THEN SetNext(m2, prev, e) ELSE m2
        t2 == IF prev # NULL THEN t1 ELSE [t1 EXCEPT !.head = e]
        bn == constrain_hash(hash, tab.bucket_count)
    IN  [tab |-> [t2 EXCEPT !.bucket[bn + 1] = e, !.size = tab.size + 1],
         mem |-> [m3 EXCEPT ![e].local_next = tab.bucket[bn + 1]]]

RECURSIVE commit_loop(_, _, _, _, _)
commit_loop(tab, mem, before, it, fuel) ==
    IF it = NULL THEN [tab |-> tab, mem |-> mem, bad |-> ""]
    ELSE IF it = END THEN [tab |-> tab, mem |-> mem, bad |-> "segv"]
    ELSE IF ~mem[it].live THEN [tab |-> tab, mem |-> mem, bad |-> "uaf"]
    ELSE IF fuel = 0 THEN [tab |-> tab, mem |-> mem, bad |-> "hang"]
    ELSE LET linked(l) ==
                 commit_loop(l.tab, l.mem, before, mem[it].next, fuel - 1)
             looked_up(result) ==
                 IF result.bad # ""
                 THEN [tab |-> tab, mem |-> mem, bad |-> result.bad]
                 ELSE IF result.first # NULL
                 THEN commit_loop(tab, destroy(mem, it), before,
                                  mem[it].next, fuel - 1)
                 ELSE linked(commit_link(tab, mem, before, result.second,
                                         it))
         IN  looked_up(find_impl(tab, mem, key(mem[it])))

\* undo_range::commit(pos, min_buckets): nothing to do for an empty list;
\* else one rehash to max(min_buckets, ceil((size + n_) / max_load_factor)),
\* `before` refreshed when it was the end, then the loop; head_ is nulled
\* at the very end, so a throwing rehash leaves the list to the destructor.
undo_range_commit(u, tab, mem, mf, pos, min_buckets, alloc_ok) ==
    LET committed(c) ==
            [u |-> [u EXCEPT !.head_ = NULL], tab |-> c.tab, mem |-> c.mem,
             threw |-> FALSE, bad |-> c.bad]
        rehashed(r) ==
            IF r.threw \/ r.bad # ""
            THEN [u |-> u, tab |-> r.tab, mem |-> r.mem, threw |-> r.threw,
                  bad |-> r.bad]
            ELSE committed(commit_loop(r.tab, r.mem,
                               IF pos = NULL \/ pos = END THEN END ELSE pos,
                               u.head_, MaxAddr))
    IN  IF u.head_ = NULL
        THEN [u |-> u, tab |-> tab, mem |-> mem, threw |-> FALSE, bad |-> ""]
        ELSE rehashed(rehash(tab, mem, mf,
                             Max(min_buckets,
                                 ceil_div(size(tab) + u.n_, mf)),
                             alloc_ok))

\* insert_range(pos, first, last, min_buckets): allocate an entry for each
\* pair of the batch onto an undo_range, then commit. `addrs` are the cells
\* the allocator hands out; allocation number `fail` throws (0: none;
\* Len(batch) + 1: the table allocation of commit's rehash). However it
\* ends, the undo_range is destroyed.
RECURSIVE insert_range_stage(_, _, _, _, _, _)
insert_range_stage(u, mem, batch, addrs, i, fail) ==
    IF i > Len(batch) THEN [u |-> u, mem |-> mem, threw |-> FALSE]
    ELSE IF i = fail THEN [u |-> u, mem |-> mem, threw |-> TRUE]
    ELSE LET staged(s) ==
                 insert_range_stage(s.u, s.mem, batch, addrs, i + 1, fail)
         IN  staged(undo_range_insert(u,
                        [mem EXCEPT ![addrs[i]] =
                            allocate_impl(batch[i][1], batch[i][2])],
                        addrs[i]))

insert_range(tab, mem, mf, pos, batch, min_buckets, addrs, fail) ==
    LET unwound(d) ==
            [tab |-> tab, mem |-> d.mem, threw |-> TRUE, bad |-> d.bad]
        destroyed(c, d) ==
            [tab |-> c.tab, mem |-> d.mem, threw |-> c.threw, bad |-> d.bad]
        committed(c) ==
            IF c.bad # ""
            THEN [tab |-> c.tab, mem |-> c.mem, threw |-> FALSE,
                  bad |-> c.bad]
            ELSE destroyed(c, undo_range_dtor(c.u, c.mem))
        staged(s) ==
            IF s.threw
            THEN unwound(undo_range_dtor(s.u, s.mem))
            ELSE committed(undo_range_commit(s.u, tab, s.mem, mf, pos,
                               min_buckets, fail # Len(batch) + 1))
    IN  staged(insert_range_stage(undo_range_new, mem, batch, addrs, 1,
                                  fail))

\* emplace(pos, key, value): look the key up; when it is there report it,
\* not inserted; else allocate an entry (cell a) and hand it to the insert
\* primitive with the hash find_impl computed.
\* a = NULL: the entry's allocation throws; ~alloc_ok: the primitive's
\* rehash does.
emplace(tab, mem, mf, pos, k, v, a, alloc_ok) ==
    LET inserted(r) ==
            [tab |-> r.tab, mem |-> r.mem, threw |-> r.threw,
             inserted |-> ~r.threw /\ r.bad = "", bad |-> r.bad]
        looked_up(result) ==
            IF result.bad # ""
            THEN [tab |-> tab, mem |-> mem, threw |-> FALSE,
                  inserted |-> FALSE, bad |-> result.bad]
            ELSE IF result.first # NULL
            THEN [tab |-> tab, mem |-> mem, threw |-> FALSE,
                  inserted |-> FALSE, bad |-> ""]
            ELSE IF a = NULL
            THEN [tab |-> tab, mem |-> mem, threw |-> TRUE,
                  inserted |-> FALSE, bad |-> ""]
            ELSE inserted(insert(tab,
                              [mem EXCEPT ![a] = allocate_impl(k, v)],
                              mf, pos, result.second, a, alloc_ok))
    IN  looked_up(find_impl(tab, mem, k))

\* insert(pos, node_type&&): an empty handle is not inserted; a handle whose
\* key find_impl finds is not inserted and keeps its entry; else the entry
\* goes to the insert primitive and, when that returns, nh.e_ is nulled.
insert_node(tab, mem, mf, pos, nh_e, alloc_ok) ==
    LET inserted(r) ==
            [tab |-> r.tab, mem |-> r.mem,
             nh_e |-> IF r.threw THEN nh_e ELSE NULL,
             threw |-> r.threw,
             inserted |-> ~r.threw /\ r.bad = "", bad |-> r.bad]
        looked_up(result) ==
            IF result.bad # "" \/ result.first # NULL
            THEN [tab |-> tab, mem |-> mem, nh_e |-> nh_e, threw |-> FALSE,
                  inserted |-> FALSE, bad |-> result.bad]
            ELSE inserted(insert(tab, mem, mf, pos, result.second, nh_e,
                                 alloc_ok))
    IN  IF nh_e = NULL
        THEN [tab |-> tab, mem |-> mem, nh_e |-> nh_e, threw |-> FALSE,
              inserted |-> FALSE, bad |-> ""]
        ELSE IF ~mem[nh_e].live
        THEN [tab |-> tab, mem |-> mem, nh_e |-> nh_e, threw |-> FALSE,
              inserted |-> FALSE, bad |-> "uaf"]
        ELSE looked_up(find_impl(tab, mem, key(mem[nh_e])))

\* erase(pos): remove the entry and destroy it.
erase(tab, mem, pos) ==
    LET removed(r) ==
            IF r.bad # "" THEN r
            ELSE [tab |-> r.tab, mem |-> destroy(r.mem, pos), bad |-> ""]
    IN  removed(remove(tab, mem, pos))

\* ~object, as clear() runs it on the table moved out of *this: destroy
\* every entry from head to end(), then the table.
RECURSIVE object_dtor_loop(_, _, _)
object_dtor_loop(mem, it, fuel) ==
    IF it = END THEN [mem |-> mem, bad |-> ""]
    ELSE IF it = NULL THEN [mem |-> mem, bad |-> "segv"]
    ELSE IF ~mem[it].live THEN [mem |-> mem, bad |-> "uaf"]
    ELSE IF fuel = 0 THEN [mem |-> mem, bad |-> "hang"]
    ELSE object_dtor_loop(destroy(mem, it), mem[it].next, fuel - 1)

object_dtor(tab, mem) ==
    IF tab.null THEN [mem |-> mem, bad |-> ""]
    ELSE object_dtor_loop(mem, tab.head, MaxAddr)


\* ------------------------------------------------------------ object::swap
\* The pairs [other.begin(), other.end()) yields: e->key() and the payload.
elements(tab, mem) ==
    LET o == iterate(tab, mem)
    IN  [i \in 1..Len(o.seq) |-> <<key(mem[o.seq[i]]), mem[o.seq[i]].val>>]

\* object(object&& other, storage_ptr sp) with *sp != *other.sp_: mf_ is
\* other's, and the entries are copies made by insert_range(end(),
\* other.begin(), other.end(), 0) in cells of sp; other is left as it was.
construct_copy(other_tab, other_mf, mem, addrs, fail) ==
    LET built(r) ==
            [tab |-> r.tab, mf |-> other_mf, mem |-> r.mem,
             threw |-> r.threw, bad |-> r.bad]
    IN  IF ~iterate(other_tab, mem).ok
        THEN [tab |-> NoTable, mf |-> other_mf, mem |-> mem,
              threw |-> FALSE, bad |-> "segv"]
        ELSE built(insert_range(NoTable, mem, other_mf, end(NoTable),
                                elements(other_tab, mem), 0, addrs, fail))

\* swap(other), *this being a and other b. Equal allocators: tab_ and mf_
\* are exchanged. Else temp1 is a copy of *this in other's allocator, temp2
\* a copy of other in this one's; other is destroyed and takes temp1, *this
\* is destroyed and takes temp2. A constructor that throws leaves both
\* objects as they were (temp1 is destroyed when temp2's throws).
swap(a_tab, a_mf, b_tab, b_mf, same, mem, addrs1, fail1, addrs2, fail2) ==
    LET unchanged(m, threw, bad) ==
            [a_tab |-> a_tab, a_mf |-> a_mf, b_tab |-> b_tab,
             b_mf |-> b_mf, mem |-> m, threw |-> threw, bad |-> bad]
        this_destroyed(t1, t2, d) ==
            [a_tab |-> t2.tab, a_mf |-> t2.mf, b_tab |-> t1.tab,
             b_mf |-> t1.mf, mem |-> d.mem, threw |-> FALSE, bad |-> d.bad]
        other_destroyed(t1, t2, d) ==
            IF d.bad # "" THEN unchanged(d.mem, FALSE, d.bad)
            ELSE this_destroyed(t1, t2, object_dtor(a_tab, d.mem))
        temp1_destroyed(d) == unchanged(d.mem, TRUE, d.bad)
        temp2(t1, t2) ==
            IF t2.bad # "" THEN unchanged(t2.mem, FALSE, t2.bad)
            ELSE IF t2.threw
            THEN temp1_destroyed(object_dtor(t1.tab, t2.mem))
            ELSE other_destroyed(t1, t2, object_dtor(b_tab, t2.mem))
        temp1(t1) ==
            IF t1.bad # "" \/ t1.threw
            THEN unchanged(t1.mem, t1.threw, t1.bad)
            ELSE temp2(t1, construct_copy(b_tab, b_mf, t1.mem, addrs2,
                                          fail2))
    IN  IF same
        THEN [a_tab |-> b_tab, a_mf |-> b_mf, b_tab |-> a_tab,
              b_mf |-> a_mf, mem |-> mem, threw |-> FALSE, bad |-> ""]
        ELSE temp1(construct_copy(a_tab, a_mf, mem, addrs1, fail1))


\* ------------------------------------------------------ detail::raw_stack
\* raw_stack(sp): no buffer. `allocated` is the size the allocator was asked
\* for when it gave the buffer base_ points to, `freed` the size that
\* ~raw_stack passed to deallocate (-1: no call), `live` whether the stack
\* has not been destroyed.
raw_stack ==
    [size_ |-> 0, capacity_ |-> 0, base_ |-> NULL, allocated |-> 0,
     freed |-> -1, live |-> TRUE]

\* grow(n), of raw_stack.ipp: a buffer of c >= capacity_ + n bytes replaces
\* the one base_ points to.
grow(s, n, c) ==
    [s EXCEPT !.capacity_ = c, !.base_ = 1, !.allocated = c]

\* push(n) and add(n): grow by what is missing, then size_ += n. c is the
\* capacity grow chooses.
push(s, n, c) ==
    LET pushed(g) == [g EXCEPT !.size_ = g.size_ + n]
    IN  IF n > s.capacity_ - s.size_
        THEN pushed(grow(s, n - (s.capacity_ - s.size_), c))
        ELSE pushed(s)

add(s, n, c) ==
    LET added(g) == [g EXCEPT !.size_ = g.size_ + n]
    IN  IF n > s.capacity_ - s.size_
        THEN added(grow(s, n - (s.capacity_ - s.size_), c))
        ELSE added(s)

\* pop(n) and subtract(n), called with n <= size_: size_ -= n.
pop(s, n) == [s EXCEPT !.size_ = s.size_ - n]

subtract(s, n) == [s EXCEPT !.size_ = s.size_ - n]

\* ~raw_stack: if(base_) sp_->deallocate(base_, size_).
raw_stack_dtor(s) ==
    [s EXCEPT !.live = FALSE,
              !.freed = IF s.base_ # NULL THEN s.size_ ELSE -1]


\* ================================================================ state
VARIABLES
    tab_,    \* the object's table (NoTable: tab_ == nullptr)
    mf_,     \* the object's max load factor
    mem,     \* the heap of element cells
    nh,      \* the entry a caller's node handle holds (nh.e_), or NULL
    ret,     \* the last call: its name, whether it threw, what it reported
    halt,    \* "" while behaviour is defined, else how it stopped being so
    dfree,   \* the node handle holds an entry that was already destroyed
    model,   \* the ordered map the calls so far describe: <<[k, v], ...>>
    vin,     \* varint codec: the value last encoded
    venc,    \* varint codec: the bytes varint_write produced for it
    vdec,    \* varint codec: what varint_read made of those bytes
    that,    \* a second object, the `other` of swap: its tab_ and mf_
    sp,      \* the allocator identities: sp.this of *this, sp.other of that
    from,    \* the allocator identity each cell was allocated from
    stk      \* a raw_stack: size_, capacity_, base_, and its allocator's record

vars == <<tab_, mf_, mem, nh, ret, halt, dfree, model, vin, venc, vdec,
          that, sp, from, stk>>
objvars == <<tab_, mf_, mem, nh, ret, halt, dfree, model>>
\* The primitives: the varint codec and the raw stack.
codecvars == <<vin, venc, vdec, stk>>
swapvars == <<that, sp, from>>

Ret(op, threw, inserted) ==
    [op |-> op, threw |-> threw, inserted |-> inserted]

\* object() : tab_ == nullptr, the default max load factor, an empty heap.
Init ==
    /\ tab_ = NoTable
    /\ mf_ = DefaultLoadFactor
    /\ mem = [a \in Addr |-> FreeCell]
    /\ nh = NULL
    /\ ret = Ret("object", FALSE, FALSE)
    /\ halt = ""
    /\ dfree = FALSE
    /\ model = <<>>
    /\ vin = 0
    /\ venc = <<0>>
    /\ vdec = [first |-> 0, second |-> 1]
    /\ that = [tab |-> NoTable, mf |-> DefaultLoadFactor]
    /\ sp = [this |-> 1, other |-> 1]
    /\ from = [a \in Addr |-> 0]
    /\ stk = raw_stack

\* ------------------------------------------------- what a caller can name
Free == {a \in Addr : ~mem[a].live}
Order == iterate(tab_, mem)
\* The iterators a caller can hold: every entry met from begin(), and end().
Entries == {Order.seq[i] : i \in 1..Len(Order.seq)}
Positions == Entries \cup {end(tab_)}

\* The keys and payloads iteration yields (it->first is e->key()).
Pairs(tab, m) ==
    LET o == iterate(tab, m)
    IN  [i \in 1..Len(o.seq) |-> [k |-> key(m[o.seq[i]]), v |-> m[o.seq[i]].val]]

\* ------------------------------------------------------- the ordered map
ModelKeys(mdl) == {mdl[i].k : i \in 1..Len(mdl)}
ModelIndex(pos) ==
    IF \E i \in 1..Len(Order.seq) : Order.seq[i] = pos
    THEN CHOOSE i \in 1..Len(Order.seq) : Order.seq[i] = pos
    ELSE Len(Order.seq) + 1
ModelInsert(mdl, i, k, v) ==
    IF k \in ModelKeys(mdl) THEN mdl
    ELSE LET j == IF i > Len(mdl) + 1 THEN Len(mdl) + 1 ELSE i
         IN  SubSeq(mdl, 1, j - 1) \o <<[k |-> k, v |-> v]>>
                 \o SubSeq(mdl, j, Len(mdl))
RECURSIVE ModelInsertAll(_, _, _, _)
ModelInsertAll(mdl, i, batch, n) ==
    IF n > Len(batch) THEN mdl
    ELSE LET m2 == ModelInsert(mdl, i, batch[n][1], batch[n][2])
         IN  ModelInsertAll(m2, i + (Len(m2) - Len(mdl)), batch, n + 1)
ModelErase(mdl, k) ==
    SelectSeq(mdl, LAMBDA p : p.k # k)

\* A call that left defined behaviour stops the run where it was.
Halt(op, threw, bad) ==
    /\ halt' = bad
    /\ ret' = Ret(op, threw, FALSE)
    /\ UNCHANGED <<tab_, mf_, mem, nh, dfree, model>>


\* ================================================================ calls
\* Each call is one member function run to its end.
Done(r, op, threw, inserted) ==
    /\ tab_' = r.tab
    /\ mem' = r.mem
    /\ ret' = Ret(op, threw, inserted)
    /\ halt' = halt

EmplaceCall(pos, k, v, a, alloc_ok) ==
    /\ halt = ""
    /\ \E r \in {emplace(tab_, mem, mf_, pos, k, v, a, alloc_ok)} :
           IF r.bad # "" THEN Halt("emplace", FALSE, r.bad)
           ELSE /\ Done(r, "emplace", r.threw, r.inserted)
                /\ model' = IF r.threw THEN model
                            ELSE ModelInsert(model, ModelIndex(pos), k, v)
                /\ UNCHANGED <<mf_, nh, dfree>>
    /\ UNCHANGED <<codecvars, swapvars>>

InsertRangeCall(pos, batch, addrs, fail) ==
    /\ halt = ""
    /\ \E r \in {insert_range(tab_, mem, mf_, pos, batch, 0, addrs, fail)} :
           IF r.bad # "" THEN Halt("insert_range", r.threw, r.bad)
           ELSE /\ Done(r, "insert_range", r.threw, FALSE)
                /\ model' = IF r.threw THEN model
                            ELSE ModelInsertAll(model, ModelIndex(pos),
                                                batch, 1)
                /\ UNCHANGED <<mf_, nh, dfree>>
    /\ UNCHANGED <<codecvars, swapvars>>

\* insert(pos, node_type&&). When the primitive throws, its revert guard has
\* destroyed nh.e_ and the handle still holds it; a handle in that state
\* reads freed memory when it is inserted again.
InsertNodeCall(pos, alloc_ok) ==
    /\ halt = ""
    /\ \E r \in {insert_node(tab_, mem, mf_, pos, nh, alloc_ok)} :
           IF dfree THEN Halt("insert_node", FALSE, "uaf")
           ELSE IF r.bad # "" THEN Halt("insert_node", FALSE, r.bad)
           ELSE /\ Done(r, "insert_node", r.threw, r.inserted)
                /\ nh' = r.nh_e
                /\ dfree' = r.threw
                /\ model' = IF r.threw \/ nh = NULL THEN model
                            ELSE ModelInsert(model, ModelIndex(pos),
                                             mem[nh].k, mem[nh].val)
                /\ UNCHANGED mf_
    /\ UNCHANGED <<codecvars, swapvars>>

EraseCall(pos) ==
    /\ halt = ""
    /\ \E r \in {erase(tab_, mem, pos)} :
           IF r.bad # "" THEN Halt("erase", FALSE, r.bad)
           ELSE /\ Done(r, "erase", FALSE, FALSE)
                /\ model' = ModelErase(model, mem[pos].k)
                /\ UNCHANGED <<mf_, nh, dfree>>
    /\ UNCHANGED <<codecvars, swapvars>>

\* erase(key): find the key; erase the entry found, or return 0.
EraseKeyCall(k) ==
    /\ halt = ""
    /\ \E f \in {find_impl(tab_, mem, k)} :
           IF f.bad # "" THEN Halt("erase_key", FALSE, f.bad)
           ELSE IF f.first = NULL
           THEN /\ ret' = Ret("erase_key", FALSE, FALSE)
                /\ UNCHANGED <<tab_, mf_, mem, nh, halt, dfree, model>>
           ELSE \E r \in {erase(tab_, mem, f.first)} :
                    IF r.bad # "" THEN Halt("erase_key", FALSE, r.bad)
                    ELSE /\ Done(r, "erase_key", FALSE, TRUE)
                         /\ model' = ModelErase(model, k)
                         /\ UNCHANGED <<mf_, nh, dfree>>
    /\ UNCHANGED <<codecvars, swapvars>>

\* extract(pos): remove the entry and hand it to a node handle.
ExtractCall(pos) ==
    /\ halt = ""
    /\ nh = NULL
    /\ \E r \in {remove(tab_, mem, pos)} :
           IF r.bad # "" THEN Halt("extract", FALSE, r.bad)
           ELSE /\ Done(r, "extract", FALSE, FALSE)
                /\ nh' = pos
                /\ model' = ModelErase(model, mem[pos].k)
                /\ UNCHANGED <<mf_, dfree>>
    /\ UNCHANGED <<codecvars, swapvars>>

\* ~node_type: destroy the entry the handle holds. An entry that was
\* destroyed before is destroyed a second time: whatever lives at its
\* address now is freed, and behaviour is undefined from there.
NodeDtorCall ==
    /\ halt = ""
    /\ nh # NULL
    /\ halt' = IF dfree THEN "double-free" ELSE ""
    /\ mem' = destroy(mem, nh)
    /\ nh' = NULL
    /\ ret' = Ret("node_dtor", FALSE, FALSE)
    /\ UNCHANGED <<tab_, mf_, dfree, model>>
    /\ UNCHANGED <<codecvars, swapvars>>

RehashCall(n, alloc_ok) ==
    /\ halt = ""
    /\ \E r \in {rehash(tab_, mem, mf_, n, alloc_ok)} :
           IF r.bad # "" THEN Halt("rehash", FALSE, r.bad)
           ELSE /\ Done(r, "rehash", r.threw, FALSE)
                /\ UNCHANGED <<mf_, nh, dfree, model>>
    /\ UNCHANGED <<codecvars, swapvars>>

\* reserve(n): rehash(ceil(n / max_load_factor())).
ReserveCall(n, alloc_ok) ==
    /\ halt = ""
    /\ \E r \in {rehash(tab_, mem, mf_, ceil_div(n, mf_), alloc_ok)} :
           IF r.bad # "" THEN Halt("reserve", FALSE, r.bad)
           ELSE /\ Done(r, "reserve", r.threw, FALSE)
                /\ UNCHANGED <<mf_, nh, dfree, model>>
    /\ UNCHANGED <<codecvars, swapvars>>

MaxLoadFactorCall(mf, alloc_ok) ==
    /\ halt = ""
    /\ \E r \in {max_load_factor(tab_, mem, mf, alloc_ok)} :
           IF r.bad # "" THEN Halt("max_load_factor", FALSE, r.bad)
           ELSE /\ Done(r, "max_load_factor", r.threw, FALSE)
                /\ mf_' = r.mf
                /\ UNCHANGED <<nh, dfree, model>>
    /\ UNCHANGED <<codecvars, swapvars>>

\* clear(): object tmp(std::move(*this)): tab_ goes to tmp, which is
\* destroyed.
ClearCall ==
    /\ halt = ""
    /\ \E d \in {object_dtor(tab_, mem)} :
           IF d.bad # "" THEN Halt("clear", FALSE, d.bad)
           ELSE /\ tab_' = NoTable
                /\ mem' = d.mem
                /\ ret' = Ret("clear", FALSE, FALSE)
                /\ model' = <<>>
                /\ UNCHANGED <<mf_, nh, halt, dfree>>
    /\ UNCHANGED <<codecvars, swapvars>>

\* The varint codec on one value: write it, read the bytes back.
VarintCall(v) ==
    /\ vin' = v
    /\ venc' = varint_write(v)
    /\ vdec' = varint_read(varint_write(v))
    /\ UNCHANGED <<objvars, swapvars, stk>>

\* at(k): nothing is written; the call throws or returns the payload.
AtCall(k) ==
    /\ halt = ""
    /\ \E f \in {find_impl(tab_, mem, k)} :
           IF f.bad # "" THEN Halt("at", FALSE, f.bad)
           ELSE /\ ret' = Ret("at", at(tab_, mem, k).threw, FALSE)
                /\ UNCHANGED <<tab_, mf_, mem, nh, halt, dfree, model>>
    /\ UNCHANGED <<codecvars, swapvars>>

\* emplace(end(), k, v) on *this or on the other object, the entry's cell
\* coming from that object's allocator.
EmplaceOnCall(side, k, v, a) ==
    /\ halt = ""
    /\ \E r \in {emplace(IF side = "this" THEN tab_ ELSE that.tab, mem,
                         IF side = "this" THEN mf_ ELSE that.mf,
                         IF side = "this" THEN end(tab_) ELSE end(that.tab),
                         k, v, a, TRUE)} :
           /\ r.bad = ""
           /\ mem' = r.mem
           /\ tab_' = IF side = "this" THEN r.tab ELSE tab_
           /\ that' = IF side = "this" THEN that
                      ELSE [that EXCEPT !.tab = r.tab]
           /\ from' = IF r.inserted THEN [from EXCEPT ![a] = sp[side]]
                      ELSE from
           /\ ret' = Ret("emplace", FALSE, r.inserted)
    /\ UNCHANGED <<mf_, nh, halt, dfree, model, sp>>
    /\ UNCHANGED codecvars

\* max_load_factor(mf) on *this, with no allocation failing.
SwapMaxLoadFactorCall(mf) ==
    /\ halt = ""
    /\ \E r \in {max_load_factor(tab_, mem, mf, TRUE)} :
           /\ r.bad = ""
           /\ tab_' = r.tab
           /\ mem' = r.mem
           /\ mf_' = r.mf
           /\ ret' = Ret("max_load_factor", FALSE, FALSE)
    /\ UNCHANGED <<nh, halt, dfree, model, that, sp, from>>
    /\ UNCHANGED codecvars

\* this->swap(that). addrs1 and addrs2 are the cells the two allocators
\* hand out for temp1 and temp2, fail1 and fail2 the allocation of each
\* constructor that throws (0: none).
SwapCall(addrs1, fail1, addrs2, fail2) ==
    /\ halt = ""
    /\ \E r \in {swap(tab_, mf_, that.tab, that.mf, sp.this = sp.other, mem,
                      addrs1, fail1, addrs2, fail2)} :
           IF r.bad # "" THEN /\ Halt("swap", r.threw, r.bad)
                              /\ UNCHANGED <<that, from>>
           ELSE /\ tab_' = r.a_tab
                /\ mf_' = r.a_mf
                /\ that' = [tab |-> r.b_tab, mf |-> r.b_mf]
                /\ mem' = r.mem
                /\ from' = [x \in DOMAIN from |->
                               IF ~r.mem[x].live THEN 0
                               ELSE IF \E i \in 1..Len(addrs1) : addrs1[i] = x
                               THEN sp.other
                               ELSE IF \E i \in 1..Len(addrs2) : addrs2[i] = x
                               THEN sp.this
                               ELSE from[x]]
                /\ ret' = Ret("swap", r.threw, FALSE)
                /\ UNCHANGED <<nh, halt, dfree, model>>
    /\ UNCHANGED <<sp, codecvars>>


\* object that(std::move(*this), sp) with the other allocator: a new object
\* takes the name `that`, which no object with a table bears. With equal
\* allocators it takes tab_ and *this is left with none; else it is built
\* by construct_copy in cells addrs of its allocator, and when allocation
\* `fail` throws no object is constructed.
MoveConstructCall(addrs, fail) ==
    /\ halt = ""
    /\ that.tab.null
    /\ IF sp.this = sp.other
       THEN /\ that' = [tab |-> tab_, mf |-> mf_]
            /\ tab_' = NoTable
            /\ ret' = Ret("move_construct", FALSE, FALSE)
            /\ UNCHANGED <<mem, from, halt>>
       ELSE \E r \in {construct_copy(tab_, mf_, mem, addrs, fail)} :
                IF r.bad # ""
                THEN /\ Halt("move_construct", r.threw, r.bad)
                     /\ UNCHANGED <<that, from>>
                ELSE /\ that' = IF r.threw THEN that
                                ELSE [tab |-> r.tab, mf |-> r.mf]
                     /\ mem' = r.mem
                     /\ from' = [x \in DOMAIN from |->
                                    IF ~r.mem[x].live THEN 0
                                    ELSE IF \E i \in 1..Len(addrs) :
                                                addrs[i] = x
                                    THEN sp.other
                                    ELSE from[x]]
                     /\ ret' = Ret("move_construct", r.threw, FALSE)
                     /\ UNCHANGED <<tab_, halt>>
    /\ UNCHANGED <<mf_, nh, dfree, model, sp, codecvars>>

\* that.~object(): its entries are destroyed, and the name is free again.
ThatDtorCall ==
    /\ halt = ""
    /\ ~that.tab.null
    /\ \E d \in {object_dtor(that.tab, mem)} :
           IF d.bad # ""
           THEN /\ Halt("~object", FALSE, d.bad)
                /\ UNCHANGED <<that, from>>
           ELSE /\ that' = [tab |-> NoTable, mf |-> DefaultLoadFactor]
                /\ mem' = d.mem
                /\ from' = [x \in DOMAIN from |->
                               IF d.mem[x].live THEN from[x] ELSE 0]
                /\ ret' = Ret("~object", FALSE, FALSE)
                /\ UNCHANGED <<tab_, halt>>
    /\ UNCHANGED <<mf_, nh, dfree, model, sp, codecvars>>


\* The calls on the raw stack. A push or an add whose grow cannot allocate
\* throws and changes nothing.
StackStep(op, threw, s) ==
    /\ halt = ""
    /\ stk' = s
    /\ ret' = Ret(op, threw, FALSE)
    /\ UNCHANGED <<tab_, mf_, mem, nh, halt, dfree, model>>
    /\ UNCHANGED <<vin, venc, vdec, swapvars>>

PushCall(n, c, alloc_ok) ==
    /\ stk.live
    /\ IF n > stk.capacity_ - stk.size_ /\ ~alloc_ok
       THEN StackStep("push", TRUE, stk)
       ELSE StackStep("push", FALSE, push(stk, n, c))

AddCall(n, c, alloc_ok) ==
    /\ stk.live
    /\ IF n > stk.capacity_ - stk.size_ /\ ~alloc_ok
       THEN StackStep("add", TRUE, stk)
       ELSE StackStep("add", FALSE, add(stk, n, c))

PopCall(n) ==
    /\ stk.live
    /\ n <= stk.size_
    /\ StackStep("pop", FALSE, pop(stk, n))

SubtractCall(n) ==
    /\ stk.live
    /\ n <= stk.size_
    /\ StackStep("subtract", FALSE, subtract(stk, n))

RawStackDtorCall ==
    /\ stk.live
    /\ StackStep("~raw_stack", FALSE, raw_stack_dtor(stk))

\* A new raw_stack, once the last one is destroyed.
RawStackCall ==
    /\ ~stk.live
    /\ StackStep("raw_stack", FALSE, raw_stack)


\* ========================================================= specifications
\* What the callers pass.
InjSeqs(S, n) ==
    {q \in [1..n -> S] : \A i, j \in 1..n : i # j => q[i] # q[j]}
Batches(K, V) == UNION {[1..n -> K \X V] : n \in 1..MaxBatch}
\* The cells a bulk insert's allocations get when allocation `fail` throws.
Staged(batch, fail) ==
    InjSeqs(Free, IF fail \in 1..Len(batch) THEN fail - 1 ELSE Len(batch))

\* ------------------------------------------------------------ the codec
\* Every value up to MaxVarint is written and read back once.
InitVarint ==
    /\ tab_ = NoTable
    /\ mf_ = DefaultLoadFactor
    /\ mem = [a \in Addr |-> FreeCell]
    /\ nh = NULL
    /\ ret = Ret("object", FALSE, FALSE)
    /\ halt = ""
    /\ dfree = FALSE
    /\ model = <<>>
    /\ vin \in 0..MaxVarint
    /\ venc = <<>>
    /\ vdec = [first |-> 0, second |-> 0]
    /\ that = [tab |-> NoTable, mf |-> DefaultLoadFactor]
    /\ sp = [this |-> 1, other |-> 1]
    /\ from = [a \in Addr |-> 0]
    /\ stk = raw_stack

Varint == venc = <<>> /\ VarintCall(vin)

NextVarint == Varint

SpecVarint == InitVarint /\ [][NextVarint]_vars


\* ------------------------------------------ single inserts, node handles
\* Entries are emplaced at end(), extracted into a node handle, reinserted
\* from it or destroyed with it, under a changing max load factor; any
\* allocation of an insert may fail.
InsKeys == {<<97>>, <<98>>}
InsEmplace ==
    \E k \in InsKeys, a \in Free \cup {NULL}, alloc_ok \in BOOLEAN :
        EmplaceCall(end(tab_), k, 1, a, alloc_ok)
InsInsertNode == \E alloc_ok \in BOOLEAN : InsertNodeCall(end(tab_), alloc_ok)
InsExtract == \E pos \in Entries : ExtractCall(pos)
InsNodeDtor == NodeDtorCall
InsMaxLoadFactor ==
    \E mf \in LoadFactors, alloc_ok \in BOOLEAN :
        MaxLoadFactorCall(mf, alloc_ok)

NextInsert ==
    \/ InsEmplace
    \/ InsInsertNode
    \/ InsExtract
    \/ InsNodeDtor
    \/ InsMaxLoadFactor

SpecInsert == Init /\ [][NextInsert]_vars


\* ---------------------------------------------------------- bulk inserts
\* Batches of up to MaxBatch pairs are inserted before any position, under
\* a changing max load factor; any allocation of a batch may fail: that of
\* any staged entry, or that of commit's rehash.
BulkInsertRange ==
    \E pos \in Positions, batch \in Batches(ShortKeys, {1}) :
        \E fail \in 0..(Len(batch) + 1) :
            \E addrs \in Staged(batch, fail) :
                /\ Len(batch) <= Cardinality(Free)
                /\ InsertRangeCall(pos, batch, addrs, fail)
BulkMaxLoadFactor ==
    \E mf \in LoadFactors : MaxLoadFactorCall(mf, TRUE)
BulkClear == ClearCall

NextBulk ==
    \/ BulkInsertRange
    \/ BulkMaxLoadFactor
    \/ BulkClear

SpecBulk == Init /\ [][NextBulk]_vars


\* ------------------------------------------- inserts at end(), rehashes
\* Keys, the long one included, are emplaced at end() (repeats allowed),
\* with rehash(n) calls in between.
OrderKeys == {<<97>>, <<98>>, LongKey}
RehashSizes == {0, 5, 12}
OrdEmplace ==
    \E k \in OrderKeys, a \in Free : EmplaceCall(end(tab_), k, 1, a, TRUE)
OrdRehash ==
    \E n \in RehashSizes, alloc_ok \in BOOLEAN : RehashCall(n, alloc_ok)

NextOrder ==
    \/ OrdEmplace
    \/ OrdRehash

SpecOrder == Init /\ [][NextOrder]_vars


\* ---------------------------------------------------- lookups, duplicates
\* A short key and the long key are emplaced, inserted in batches and from
\* a node handle (all at end()), extracted, and erased by key.
LookKeys == {<<97>>, LongKey}
LookEmplace ==
    \E k \in LookKeys, a \in Free : EmplaceCall(end(tab_), k, 1, a, TRUE)
LookInsertRange ==
    \E batch \in Batches(LookKeys, {2}) :
        \E addrs \in Staged(batch, 0) :
            /\ Len(batch) <= Cardinality(Free)
            /\ InsertRangeCall(end(tab_), batch, addrs, 0)
LookExtract == \E pos \in Entries : ExtractCall(pos)
LookInsertNode == InsertNodeCall(end(tab_), TRUE)
LookEraseKey == \E k \in LookKeys : EraseKeyCall(k)

NextLookup ==
    \/ LookEmplace
    \/ LookInsertRange
    \/ LookExtract
    \/ LookInsertNode
    \/ LookEraseKey

SpecLookup == Init /\ [][NextLookup]_vars


\* ------------------------------------------------- load factor, buckets
\* Entries are emplaced at end() and erased by key, and the bucket count is
\* driven by rehash, reserve and max_load_factor; any allocation may fail.
PolicySizes == {0, 3, 5}
PolEmplace ==
    \E k \in ShortKeys, a \in Free \cup {NULL}, alloc_ok \in BOOLEAN :
        EmplaceCall(end(tab_), k, 1, a, alloc_ok)
PolEraseKey == \E k \in ShortKeys : EraseKeyCall(k)
PolRehash ==
    \E n \in PolicySizes, alloc_ok \in BOOLEAN : RehashCall(n, alloc_ok)
PolReserve ==
    \E n \in PolicySizes, alloc_ok \in BOOLEAN : ReserveCall(n, alloc_ok)
PolMaxLoadFactor ==
    \E mf \in LoadFactors, alloc_ok \in BOOLEAN :
        MaxLoadFactorCall(mf, alloc_ok)
PolClear == ClearCall

NextPolicy ==
    \/ PolEmplace
    \/ PolEraseKey
    \/ PolRehash
    \/ PolReserve
    \/ PolMaxLoadFactor
    \/ PolClear

SpecPolicy == Init /\ [][NextPolicy]_vars


\* ------------------------------------------------------------- shrinking
\* Entries are emplaced at end() and erased by key, the max load factor
\* changes, and rehash(n) is called with the small n of ShrinkSizes; no
\* allocation fails.
ShrinkSizes == {0, 3}
ShrEmplace ==
    \E k \in ShortKeys, a \in Free : EmplaceCall(end(tab_), k, 1, a, TRUE)
ShrEraseKey == \E k \in ShortKeys : EraseKeyCall(k)
ShrMaxLoadFactor == \E mf \in LoadFactors : MaxLoadFactorCall(mf, TRUE)
ShrRehash == \E n \in ShrinkSizes : RehashCall(n, TRUE)

NextShrink ==
    \/ ShrEmplace
    \/ ShrEraseKey
    \/ ShrMaxLoadFactor
    \/ ShrRehash

SpecShrink == Init /\ [][NextShrink]_vars


\* ---------------------------------------------- inserts at end(), erases
\* Keys, the long one included, are emplaced at end() and any entry (the
\* first, a middle one, the last, the only one) is erased by position.
EraseKeys == {<<97>>, <<98>>, LongKey}
ErsEmplace ==
    \E k \in EraseKeys, a \in Free : EmplaceCall(end(tab_), k, 1, a, TRUE)
ErsErase == \E pos \in Entries : EraseCall(pos)

NextErase ==
    \/ ErsEmplace
    \/ ErsErase

SpecErase == Init /\ [][NextErase]_vars


\* ------------------------------------------------- every linking operation
\* Short keys are emplaced and inserted in batches at any position, from a
\* node handle at end(), erased and extracted by position, and the table is
\* rehashed to ChainBuckets buckets; no allocation fails.
ChainKeys == {<<97>>, <<98>>}
ChainBuckets == {5}
ChnEmplace ==
    \E pos \in Positions, k \in ChainKeys, a \in Free :
        EmplaceCall(pos, k, 1, a, TRUE)
ChnInsertRange ==
    \E pos \in Positions, batch \in Batches(ChainKeys, {1}) :
        \E addrs \in Staged(batch, 0) :
            /\ Len(batch) <= Cardinality(Free)
            /\ InsertRangeCall(pos, batch, addrs, 0)
ChnErase == \E pos \in Entries : EraseCall(pos)
ChnExtract == \E pos \in Entries : ExtractCall(pos)
ChnInsertNode == InsertNodeCall(end(tab_), TRUE)
ChnNodeDtor == NodeDtorCall
ChnRehash == \E n \in ChainBuckets : RehashCall(n, TRUE)

NextChain ==
    \/ ChnEmplace
    \/ ChnInsertRange
    \/ ChnErase
    \/ ChnExtract
    \/ ChnInsertNode
    \/ ChnNodeDtor
    \/ ChnRehash

SpecChain == Init /\ [][NextChain]_vars


\* ------------------------------------------------------ entries destroyed
\* A short key and the long key are emplaced and inserted in batches at
\* end(); entries are destroyed by erase(pos) and by clear().
DestroyKeys == {<<97>>, LongKey}
DstEmplace ==
    \E k \in DestroyKeys, a \in Free : EmplaceCall(end(tab_), k, 1, a, TRUE)
DstInsertRange ==
    \E batch \in Batches(DestroyKeys, {2}) :
        \E addrs \in Staged(batch, 0) :
            /\ Len(batch) <= Cardinality(Free)
            /\ InsertRangeCall(end(tab_), batch, addrs, 0)
DstErase == \E pos \in Entries : EraseCall(pos)
DstClear == ClearCall

NextDestroy ==
    \/ DstEmplace
    \/ DstInsertRange
    \/ DstErase
    \/ DstClear

SpecDestroy == Init /\ [][NextDestroy]_vars


\* ------------------------------------------------------------------ swap
\* Two objects, with one allocator or with two, in a heap of MaxSwapAddr
\* cells: the long key and the key that key() makes of it are emplaced at
\* the end of either, the max load factor of *this changes, and the two are
\* swapped, with and without an allocation of the copies failing.
SwapAddr == 1..MaxSwapAddr
SwapKeys == {LongKeyView, LongKey}
InitSwap ==
    /\ tab_ = NoTable
    /\ mf_ = DefaultLoadFactor
    /\ mem = [a \in SwapAddr |-> FreeCell]
    /\ nh = NULL
    /\ ret = Ret("object", FALSE, FALSE)
    /\ halt = ""
    /\ dfree = FALSE
    /\ model = <<>>
    /\ vin = 0
    /\ venc = <<0>>
    /\ vdec = [first |-> 0, second |-> 1]
    /\ that = [tab |-> NoTable, mf |-> DefaultLoadFactor]
    /\ sp \in {[this |-> 1, other |-> 1], [this |-> 1, other |-> 2]}
    /\ from = [a \in SwapAddr |-> 0]
    /\ stk = raw_stack

FreeCells == {a \in DOMAIN mem : ~mem[a].live}
\* The allocators hand out the lowest free cell.
RECURSIVE Lowest(_, _)
Lowest(cells, n) ==
    IF n = 0 \/ cells = {} THEN <<>>
    ELSE LET a == CHOOSE x \in cells : \A y \in cells : x <= y
         IN  <<a>> \o Lowest(cells \ {a}, n - 1)
\* The cells a copy's allocations get when allocation `fail` of n throws
\* (none when the heap has too few), and the allocations of a copy of n
\* entries that can throw (the last is its table's; a copy of nothing
\* allocates nothing).
Copied(cells, n, fail) ==
    LET need == IF fail \in 1..n THEN fail - 1 ELSE n
    IN  IF need <= Cardinality(cells) THEN {Lowest(cells, need)} ELSE {}
Failing(n) == IF n = 0 THEN {0} ELSE 0..(n + 1)

SwpEmplace ==
    \E side \in {"this", "other"}, k \in SwapKeys,
       addrs \in Copied(FreeCells, 1, 0) :
        EmplaceOnCall(side, k, IF side = "this" THEN 1 ELSE 2, addrs[1])
SwpMaxLoadFactor == \E mf \in LoadFactors : SwapMaxLoadFactorCall(mf)
SwpSwapSame ==
    /\ sp.this = sp.other
    /\ SwapCall(<<>>, 0, <<>>, 0)
SwpSwap ==
    /\ sp.this # sp.other
    /\ \E fail1 \in Failing(size(tab_)) :
         \E fail2 \in IF fail1 = 0 THEN Failing(size(that.tab)) ELSE {0} :
           \E addrs1 \in Copied(FreeCells, size(tab_), fail1) :
             \E addrs2 \in
                 Copied(FreeCells \ {addrs1[i] : i \in 1..Len(addrs1)},
                        IF fail1 = 0 THEN size(that.tab) ELSE 0, fail2) :
               SwapCall(addrs1, fail1, addrs2, fail2)

NextSwap ==
    \/ SwpEmplace
    \/ SwpMaxLoadFactor
    \/ SwpSwapSame
    \/ SwpSwap

SpecSwap == InitSwap /\ [][NextSwap]_vars


\* --------------------------------------------------------------- absence
\* A short key and the long key are inserted in batches at end() and
\* erased by position; at(k) is called with these keys and with the key
\* that key() makes of the long key.
AtKeys == {<<97>>, LongKey}
AskedKeys == AtKeys \cup {LongKeyView}
AtInsertRange ==
    \E batch \in Batches(AtKeys, {2}) :
        \E addrs \in Staged(batch, 0) :
            /\ Len(batch) <= Cardinality(Free)
            /\ InsertRangeCall(end(tab_), batch, addrs, 0)
AtErase == \E pos \in Entries : EraseCall(pos)
AtAt == \E k \in AskedKeys : AtCall(k)

NextAt ==
    \/ AtInsertRange
    \/ AtErase
    \/ AtAt

SpecAt == Init /\ [][NextAt]_vars


\* --------------------------------------------------------------- reserve
\* reserve(n) is called, the max load factor changes, distinct short keys
\* are emplaced at end() one at a time, and the container is cleared; an
\* allocation of reserve's or of an insert's rehash may fail.
ReserveSizes == {0, 3, 5, 7}
RsvReserve ==
    \E n \in ReserveSizes, alloc_ok \in BOOLEAN : ReserveCall(n, alloc_ok)
RsvEmplace ==
    \E k \in ShortKeys \ ModelKeys(model), a \in Free, alloc_ok \in BOOLEAN :
        EmplaceCall(end(tab_), k, 1, a, alloc_ok)
RsvMaxLoadFactor == \E mf \in LoadFactors : MaxLoadFactorCall(mf, TRUE)
RsvClear == ClearCall

NextReserve ==
    \/ RsvReserve
    \/ RsvEmplace
    \/ RsvMaxLoadFactor
    \/ RsvClear

SpecReserve == Init /\ [][NextReserve]_vars


\* ------------------------------------------------------ move construction
\* *this, in a heap of MaxSwapAddr cells, gets the long key and the key
\* that key() makes of it, and its max load factor changes; a second object
\* is move-constructed from it with the same allocator or with another,
\* with and without an allocation of the copy failing, and destroyed.
MovEmplace ==
    \E k \in SwapKeys, addrs \in Copied(FreeCells, 1, 0) :
        EmplaceOnCall("this", k, 1, addrs[1])
MovMaxLoadFactor == \E mf \in LoadFactors : SwapMaxLoadFactorCall(mf)
MovConstruct ==
    \E fail \in IF sp.this = sp.other THEN {0} ELSE Failing(size(tab_)) :
        \E addrs \in Copied(FreeCells,
                            IF sp.this = sp.other THEN 0 ELSE size(tab_),
                            fail) :
            MoveConstructCall(addrs, fail)
MovDestroy == ThatDtorCall

NextMove ==
    \/ MovEmplace
    \/ MovMaxLoadFactor
    \/ MovConstruct
    \/ MovDestroy

SpecMove == InitSwap /\ [][NextMove]_vars


\* ------------------------------------------------------------- raw stack
\* A raw_stack is pushed to and popped from, by push/pop and by
\* add/subtract, in steps of up to MaxRawCapacity bytes in all; grow picks
\* any capacity that holds the bytes, or fails to allocate; the stack is
\* destroyed and a new one is made.
RawSizes == {1, 2, 3}
GrownTo(n) ==
    {c \in 1..MaxRawCapacity : c >= stk.size_ + n}
StkPush ==
    \E n \in RawSizes, alloc_ok \in BOOLEAN :
        /\ stk.size_ + n <= MaxRawCapacity
        /\ \E c \in GrownTo(n) : PushCall(n, c, alloc_ok)
StkAdd ==
    \E n \in RawSizes, alloc_ok \in BOOLEAN :
        /\ stk.size_ + n <= MaxRawCapacity
        /\ \E c \in GrownTo(n) : AddCall(n, c, alloc_ok)
StkPop == \E n \in RawSizes : PopCall(n)
StkSubtract == \E n \in RawSizes : SubtractCall(n)
StkDtor == RawStackDtorCall
StkCtor == RawStackCall

NextStack ==
    \/ StkPush
    \/ StkAdd
    \/ StkPop
    \/ StkSubtract
    \/ StkDtor
    \/ StkCtor

SpecStack == Init /\ [][NextStack]_vars


\* ================================================================ claims
\* The least number of base-128 groups that hold v, and at least 1.
MinGroups(v) ==
    CHOOSE n \in 1..4 : v < 128^n /\ \A m \in 1..(n - 1) : v >= 128^m

\* C8: varint_read applied to the bytes varint_write(v) produced returns v,
\* for every v, those above 127 included.
C8_RoundTrip == venc # <<>> => vdec.first = vin

\* C9: varint_size(v) is the number of bytes varint_write(v) emits, and
\* that number is the least number of base-128 groups that hold v.
C9_SizeIsBytesWritten ==
    venc # <<>> =>
        /\ varint_size(vin) = Len(venc)
        /\ Len(venc) = MinGroups(vin)

\* C9's case: a value of three groups has been written.
C9_Witness == venc # <<>> /\ vin >= 128 * 128 /\ Len(venc) = 3

\* C1: after any sequence of inserts at end() (repeats allowed) and of
\* rehash(n) calls on a container that was empty, size() is the number of
\* distinct keys inserted, and iteration from begin() to end() yields those
\* keys in the order of their first insertion.
C1_InsertionOrder ==
    halt = "" =>
        /\ size(tab_) = Len(model)
        /\ Len(Pairs(tab_, mem)) = Len(model)
        /\ \A i \in 1..Len(model) : Pairs(tab_, mem)[i].k = model[i].k

\* C2: every key, of whatever length, that was inserted and not erased is
\* reported present by find, contains and count, and find returns the entry
\* whose stored key equals it byte for byte; every other key is reported
\* not found.
C2_Lookup ==
    halt = "" =>
        \A k \in LookKeys :
            IF k \in ModelKeys(model)
            THEN /\ contains(tab_, mem, k)
                 /\ count(tab_, mem, k) = 1
                 /\ find(tab_, mem, k) \in Addr
                 /\ key(mem[find(tab_, mem, k)]) = k
            ELSE /\ ~contains(tab_, mem, k)
                 /\ count(tab_, mem, k) = 0

\* C3: no two live entries of a container have equal keys: an insert (from
\* a node handle, or of a batch) of a key that is present is refused.
C3_UniqueKeys ==
    halt = "" =>
        \A i, j \in 1..Len(Order.seq) :
            i # j => mem[Order.seq[i]].k # mem[Order.seq[j]].k

\* C4: after every completed mutating call, bucket_count() is a member of
\* the prime sequence and size() <= bucket_count() * max_load_factor().
C4_LoadFactorBound ==
    (halt = "" /\ ~ret.threw) =>
        /\ \E i \in 1..Len(primes) : bucket_count(tab_) = primes[i]
        /\ ~exceeds(size(tab_), bucket_count(tab_), mf_)

\* C5: when an allocation fails at any allocation point of a bulk insert
\* (staging any entry of the batch, or commit's rehash), the table (its
\* size, bucket count, order list and bucket chains, hence every lookup) is
\* what it was before the batch began, and every staged entry has been
\* destroyed exactly once: the heap is what it was, and no entry was
\* destroyed twice.
C5_FailedBulkInsertUnchanged ==
    [][(ret'.op = "insert_range" /\ ret'.threw) =>
          /\ halt' = ""
          /\ tab_' = tab_
          /\ mf_' = mf_
          /\ mem' = mem
          /\ Pairs(tab_', mem') = Pairs(tab_, mem)
          /\ \A k \in ShortKeys : find(tab_', mem', k) = find(tab_, mem, k)
      ]_vars

\* C5's case: a bulk insert into a container that holds an entry has
\* failed.
C5_Witness == ret.op = "insert_range" /\ ret.threw /\ size(tab_) >= 1

\* C6: when the rehash inside the single-entry insert primitive fails with
\* an allocation error, the entry being inserted is destroyed and the table
\* pointer, size, bucket count, order list and bucket chains are what they
\* were before the call.
C6_FailedInsertUnchanged ==
    [][(ret'.threw /\ ret'.op \in {"emplace", "insert_node"}) =>
          /\ halt' = ""
          /\ tab_' = tab_
          /\ mf_' = mf_
          /\ mem' = IF ret'.op = "insert_node"
                    THEN [mem EXCEPT ![nh] = FreeCell] ELSE mem
      ]_vars

\* C6's case: a node insert into a container that holds an entry needed a
\* rehash, and the rehash failed.
C6_Witness == ret.op = "insert_node" /\ ret.threw /\ size(tab_) >= 1

\* C7: every entry is owned by exactly one of a table, a node handle and a
\* staging list, and no entry is destroyed twice: the entry a node handle
\* holds is allocated, is in no table, and was not destroyed by an insert's
\* rollback guard.
C7_ExclusiveOwner ==
    /\ halt # "double-free"
    /\ nh # NULL => (~dfree /\ mem[nh].live /\ nh \notin Entries)

\* C10: after rehash(n), whatever n and the state it is called in, the
\* bucket count is not below the smallest prime of the sequence that is
\* >= ceil(size / max_load_factor).
C10_RehashKeepsLoadFactor ==
    (halt = "" /\ ret.op = "rehash" /\ ~ret.threw) =>
        bucket_count(tab_) >= lower_bound(ceil_div(size(tab_), mf_))

\* The bucket count the claim C11 gives rehash(n): n snapped to a prime;
\* when that is below the current count, the larger of it and the smallest
\* prime >= ceil(size / max_load_factor), if that is below the current
\* count, else the current count.
rehash_claimed(tab, mf, n) ==
    LET clamped(n2, bc) == IF n2 < bc THEN n2 ELSE bc
        snapped(n1, bc) ==
            IF n1 < bc
            THEN clamped(Max(n1, lower_bound(ceil_div(size(tab), mf))), bc)
            ELSE n1
    IN  snapped(lower_bound(n), bucket_count(tab))

\* C11: rehash(n) with n snapping to a prime below the current bucket
\* count rebuilds the table with max(snapped n, smallest prime >=
\* ceil(size / max_load_factor)) buckets when that is below the current
\* count (a real shrink), and returns without change only otherwise: the
\* bucket count a rehash leaves is the one the claim gives for the n it
\* was called with.
C11_RehashShrinks ==
    [][(ret'.op = "rehash" /\ halt' = "") =>
          \E n \in ShrinkSizes :
              bucket_count(tab_') = rehash_claimed(tab_, mf_, n)
      ]_vars

\* C12: extracting any entry and inserting the node handle back restores
\* the container: the insert reports inserted = true and leaves the handle
\* empty, find(key) gives the entry the handle held (the same address, its
\* payload as it was), and size() is again what it was before the extract.
C12_ExtractInsertRoundTrip ==
    [][(ret.op = "extract" /\ halt = "" /\ ret'.op = "insert_node"
            /\ ~ret'.threw) =>
          /\ halt' = ""
          /\ ret'.inserted
          /\ nh' = NULL
          /\ find(tab_', mem', mem[nh].k) = nh
          /\ mem'[nh].live
          /\ mem'[nh].val = mem[nh].val
          /\ size(tab_') = size(tab_) + 1
      ]_vars

\* C13: insert(node handle) with a key the container already holds changes
\* nothing in the container, reports inserted = false (the position it
\* returns is the entry find(key) gives), and the handle still owns its
\* entry, not destroyed; insert of an empty handle reports inserted = false
\* and changes nothing.
C13_RejectedNodeInsert ==
    [][(ret'.op = "insert_node" /\ halt = "" /\ ~dfree) =>
          /\ nh = NULL =>
                /\ halt' = "" /\ ~ret'.inserted /\ ~ret'.threw
                /\ tab_' = tab_ /\ mem' = mem /\ nh' = NULL
          /\ (nh # NULL /\ mem[nh].k \in ModelKeys(model)) =>
                /\ halt' = "" /\ ~ret'.inserted /\ ~ret'.threw
                /\ tab_' = tab_ /\ mem' = mem
                /\ nh' = nh /\ mem'[nh].live
                /\ find(tab_', mem', mem[nh].k) \notin {end(tab_'), nh}
      ]_vars

\* C14: after any sequence of inserts at end() and of erases (of the
\* first, a middle, the last and the only entry), every call has completed
\* and iteration from begin() yields exactly the keys inserted and not
\* erased, in the order they were inserted; an insert after the erases
\* appends at the end.
C14_EraseKeepsOrder ==
    [][(halt = "" /\ (ret.op = "erase" \/ ret'.op = "erase")) =>
          /\ halt' = ""
          /\ [i \in 1..Len(Pairs(tab_', mem')) |-> Pairs(tab_', mem')[i].k]
                 = [i \in 1..Len(model') |-> model'[i].k]
      ]_vars

\* The entries met on a bucket chain from e on, and whether the walk ended
\* at the end marker.
RECURSIVE ChainFrom(_, _, _, _)
ChainFrom(m, e, acc, fuel) ==
    IF e = END THEN [seq |-> acc, ok |-> TRUE]
    ELSE IF ~IsElem(m, e) \/ fuel = 0 THEN [seq |-> acc, ok |-> FALSE]
    ELSE ChainFrom(m, m[e].local_next, Append(acc, e), fuel - 1)
Chains ==
    [b \in 1..bucket_count(tab_) |->
        ChainFrom(mem, tab_.bucket[b], <<>>, MaxAddr)]
RECURSIVE SumLen(_, _)
SumLen(cs, b) == IF b = 0 THEN 0 ELSE Len(cs[b].seq) + SumLen(cs, b - 1)
\* The entries the container owns: live, and not held by the node handle.
Owned == {a \in Addr : mem[a].live /\ a # nh}

\* C15: after any sequence of completed operations (insert at any position,
\* bulk insert, erase, extract, node-handle insert, rehash) every entry of
\* the container is met exactly once walking the order list and is on
\* exactly one bucket chain, and size() is the number of entries iteration
\* yields and the sum of the chain lengths; so too after a bulk insert that
\* follows erasing the container down to empty with the bucket count
\* unchanged.
C15_ListsAgree ==
    /\ halt = ""
    /\ Order.ok
    /\ {Order.seq[i] : i \in 1..Len(Order.seq)} = Owned
    /\ Len(Order.seq) = Cardinality(Owned)
    /\ size(tab_) = Len(Order.seq)
    /\ \A b \in 1..bucket_count(tab_) : Chains[b].ok
    /\ UNION {{Chains[b].seq[i] : i \in 1..Len(Chains[b].seq)} :
                 b \in 1..bucket_count(tab_)} = Owned
    /\ SumLen(Chains, bucket_count(tab_)) = size(tab_)

\* C16: for every entry, of every key length (128 bytes and more
\* included), the byte size element::destroy passes to deallocate is the
\* byte size allocate_impl passed to allocate for it.
C16_DeallocateSizeIsAllocateSize ==
    [][\A a \in Addr :
          (mem[a].live /\ ~mem'[a].live) =>
              destroy_size(mem[a]) = allocate_size(mem[a].k)
      ]_vars

\* The key each entry was created with and its payload, in iteration order.
Stored(tab, m) ==
    LET o == iterate(tab, m)
    IN  [i \in 1..Len(o.seq) |-> [k |-> m[o.seq[i]].k, v |-> m[o.seq[i]].val]]

\* C17: a bulk insert of a batch with keys repeated in the batch and keys
\* the container holds commits first-wins: the entries the container held
\* keep their values and their places, the new keys' entries stand in the
\* order of their first occurrence right before the insert position (so
\* size() grows by the number of distinct new keys), and every staged entry
\* that was dropped has been destroyed, once: no other cell is live.
C17_BulkInsertFirstWins ==
    [][(halt = "" /\ Stored(tab_, mem) = model
            /\ ret'.op = "insert_range" /\ ~ret'.threw) =>
          /\ halt' = ""
          /\ Stored(tab_', mem') = model'
          /\ size(tab_') = Len(model')
          /\ Cardinality({a \in Addr : mem'[a].live /\ a # nh'})
                 = Len(model')
      ]_vars

\* The entries iteration over a table meets.
EntriesOf(tab, m) ==
    {iterate(tab, m).seq[i] : i \in 1..Len(iterate(tab, m).seq)}

\* C18: a completed swap exchanges the contents of the two objects (what
\* iteration yields of each is what it yielded of the other). With equal
\* allocator identities the table pointers are exchanged and no entry is
\* copied or destroyed; with different ones each object holds a deep copy:
\* none of its entries is a cell the other held, and every cell that was
\* live before is destroyed. Either way every entry of an object was
\* allocated from that object's allocator, and no other cell is live.
C18_SwapExchanges ==
    [][(halt = "" /\ ret'.op = "swap" /\ ~ret'.threw) =>
          /\ halt' = ""
          /\ Pairs(tab_', mem') = Pairs(that.tab, mem)
          /\ Pairs(that'.tab, mem') = Pairs(tab_, mem)
          /\ sp.this = sp.other =>
                /\ tab_' = that.tab
                /\ that'.tab = tab_
                /\ mem' = mem
          /\ sp.this # sp.other =>
                (EntriesOf(tab_', mem') \cup EntriesOf(that'.tab, mem'))
                    \cap {a \in DOMAIN mem : mem[a].live} = {}
          /\ \A e \in EntriesOf(tab_', mem') : from'[e] = sp.this
          /\ \A e \in EntriesOf(that'.tab, mem') : from'[e] = sp.other
          /\ {a \in DOMAIN mem' : mem'[a].live}
                 = EntriesOf(tab_', mem') \cup EntriesOf(that'.tab, mem')
      ]_vars

\* C19: at(key) with a key the container does not hold throws and leaves
\* the container as it was (a container with no table still has none),
\* and find, count and contains report that key absent: end(), 0 and
\* false, on a container with no table too.
C19_AbsentKey ==
    [][\A k \in AskedKeys :
          (halt = "" /\ k \notin ModelKeys(model) /\ AtCall(k)) =>
              /\ halt' = ""
              /\ ret'.threw
              /\ tab_' = tab_ /\ mem' = mem /\ mf_' = mf_
              /\ find(tab_, mem, k) = end(tab_)
              /\ count(tab_, mem, k) = 0
              /\ ~contains(tab_, mem, k)
      ]_vars

\* C20: a completed reserve(n) leaves a bucket count that holds n entries
\* (n <= bucket_count() * max_load_factor()), and an insert of a new key
\* whose resulting size is at most bucket_count() * max_load_factor()
\* leaves bucket_count() as it was: the bucket count changes only at the
\* insert that takes the size above that threshold, so not at any size up
\* to n after reserve(n).
C20_ReserveHoldsBucketCount ==
    [][/\ \A n \in ReserveSizes :
            (halt = "" /\ ReserveCall(n, TRUE) /\ ~ret'.threw) =>
                n * mf_'.den <= bucket_count(tab_') * mf_'.num
       /\ (halt = "" /\ ret'.op = "emplace" /\ ret'.inserted
              /\ size(tab_') * mf_.den <= bucket_count(tab_) * mf_.num) =>
             /\ halt' = ""
             /\ bucket_count(tab_') = bucket_count(tab_)
      ]_vars

\* C20's case: under the default max load factor an insert has taken the
\* size to 3 in a table of 3 buckets (what reserve(3) builds): the size is
\* at the threshold, not above it.
C20_Witness ==
    /\ halt = ""
    /\ ret.op = "emplace" /\ ret.inserted
    /\ mf_ = DefaultLoadFactor
    /\ size(tab_) = 3
    /\ bucket_count(tab_) = 3

\* C21: the insert primitive puts the new entry right before the given
\* position in iteration order, for every position, begin() included, and
\* after any operations before it, an erase or extract of the former first
\* entry included: when iteration agreed with the ordered map before a
\* single insert (by emplace or from a node handle), it agrees after it
\* with the map that has the new entry before the position's entry (first,
\* when the position was begin()).
C21_InsertBeforePosition ==
    [][(halt = "" /\ Stored(tab_, mem) = model
            /\ ret'.op \in {"emplace", "insert_node"}
            /\ ret'.inserted /\ ~ret'.threw) =>
          /\ halt' = ""
          /\ Stored(tab_', mem') = model'
      ]_vars

\* C22: a single completed insert changes the bucket count if and only if
\* size + 1 > bucket_count * max_load_factor held before it, and the new
\* bucket count is then the smallest prime of the sequence that is
\* >= ceil((size + 1) / max_load_factor); so at load factor 1.0 an insert
\* that finds the bucket count at the smallest prime >= size (0 buckets for
\* the empty container) leaves it at the smallest prime >= size + 1.
C22_InsertGrowsBuckets ==
    [][(halt = "" /\ ret'.op = "emplace" /\ ret'.inserted /\ ~ret'.threw) =>
         /\ halt' = ""
         /\ size(tab_') = size(tab_) + 1
         /\ (bucket_count(tab_') # bucket_count(tab_))
               <=> ((size(tab_) + 1) * mf_.den > bucket_count(tab_) * mf_.num)
         /\ ((size(tab_) + 1) * mf_.den > bucket_count(tab_) * mf_.num) =>
               bucket_count(tab_') =
                   lower_bound(((size(tab_) + 1) * mf_.den + mf_.num - 1)
                                   \div mf_.num)
         /\ (mf_ = DefaultLoadFactor
                /\ bucket_count(tab_) = lower_bound(size(tab_))) =>
               bucket_count(tab_') = lower_bound(size(tab_'))
      ]_vars

\* C22's case: an insert has grown a table of 3 buckets: at load factor 1/2
\* the second entry needs ceil(2 / 0.5) = 4 buckets, and the table has 7.
C22_Witness ==
    /\ halt = ""
    /\ ret.op = "emplace" /\ ret.inserted
    /\ mf_ = [num |-> 1, den |-> 2]
    /\ size(tab_) = 2
    /\ bucket_count(tab_) = 7

\* C23: a completed move construction with an allocator of the source's
\* identity hands the source's table to the new object (the same entries at
\* the same addresses in the same order, no cell touched) and leaves the
\* source empty with bucket_count() = 0; with an allocator of another
\* identity the new object holds copies of the source's entries, in the
\* source's order and in cells of its own allocator, and the source and its
\* entries are as they were.
C23_MoveConstruct ==
    [][(halt = "" /\ ret'.op = "move_construct" /\ ~ret'.threw) =>
          /\ halt' = ""
          /\ that'.mf = mf_
          /\ Pairs(that'.tab, mem') = Pairs(tab_, mem)
          /\ sp.this = sp.other =>
                /\ that'.tab = tab_
                /\ mem' = mem
                /\ tab_'.null
                /\ size(tab_') = 0
                /\ bucket_count(tab_') = 0
          /\ sp.this # sp.other =>
                /\ tab_' = tab_
                /\ \A a \in DOMAIN mem : mem[a].live => mem'[a] = mem[a]
                /\ EntriesOf(that'.tab, mem')
                       \cap {a \in DOMAIN mem : mem[a].live} = {}
                /\ \A e \in EntriesOf(that'.tab, mem') : from'[e] = sp.other
      ]_vars

\* C24: a destroyed raw_stack that owned a buffer has passed to deallocate
\* the size the buffer was allocated with (its capacity), whatever size_
\* was after the pushes, pops, adds and subtracts before.
C24_DeallocateWithCapacity ==
    (~stk.live /\ stk.base_ # NULL) => stk.freed = stk.allocated

\* C25: after every completed operation the links of the order list agree:
\* the first entry's prev is null, the prev of the entry after a live entry
\* x is x, and the last entry's next is the end sentinel, whose prev is
\* that entry; so after an erase or extract of the first entry the new
\* first entry's prev is null.
C25_LinksConsistent ==
    (halt = "" /\ ~tab_.null) =>
        /\ tab_.head # END =>
              /\ IsElem(mem, tab_.head)
              /\ mem[tab_.head].prev = NULL
        /\ \A x \in {a \in DOMAIN mem : mem[a].live /\ a # nh} :
              IF mem[x].next = END
              THEN tab_.end_prev = x
              ELSE /\ IsElem(mem, mem[x].next)
                   /\ mem[mem[x].next].prev = x

\* C26: after every completed operation every entry of the container is on
\* the chain of its home bucket, hash(e->key()) mod bucket_count(), so that
\* remove's walk of that chain meets it before the end sentinel, and every
\* bucket chain is acyclic and ends at the end sentinel.
C26_EntriesOnHomeChain ==
    (halt = "") =>
        /\ \A b \in 1..bucket_count(tab_) :
              /\ Chains[b].ok
              /\ \A i, j \in 1..Len(Chains[b].seq) :
                    i # j => Chains[b].seq[i] # Chains[b].seq[j]
        /\ \A x \in Owned :
              /\ ~tab_.null
              /\ \E i \in
                      1..Len(Chains[bucket(tab_, key(mem[x])) + 1].seq) :
                    Chains[bucket(tab_, key(mem[x])) + 1].seq[i] = x

\* C27: a completed clear() destroys every entry of the container and
\* releases the table: size() is 0, begin() is end(), bucket_count() is 0
\* whatever was reserved, no entry of the container is live any more, and
\* the max load factor (as the node handle's entry) is as it was; and an
\* insert into a container with no table, as clear() leaves it, makes a new
\* table and inserts.
C27_ClearReleasesAll ==
    [][/\ (halt = "" /\ ret'.op = "clear") =>
             /\ halt' = ""
             /\ tab_'.null
             /\ size(tab_') = 0
             /\ empty(tab_')
             /\ begin(tab_') = end(tab_')
             /\ bucket_count(tab_') = 0
             /\ mf_' = mf_
             /\ \A a \in DOMAIN mem :
                   mem'[a].live <=> (mem[a].live /\ a = nh)
       /\ (halt = "" /\ tab_.null /\ ret'.op = "emplace" /\ ~ret'.threw) =>
             /\ halt' = ""
             /\ ret'.inserted
             /\ ~tab_'.null
             /\ size(tab_') = 1
             /\ begin(tab_') # end(tab_')
      ]_vars

=============================================================================
